---- MODULE Spec2Model ----
(***************************************************************************)
(* The AliCloud OSS binding (bindings/alicloud/oss/oss.go): an adapter     *)
(* holding a configuration record and a client handle, with Init and       *)
(* Invoke (create, get, delete, list).  The object store behind the SDK is *)
(* the environment: a map from object keys to objects, read and written    *)
(* one SDK call at a time, every SDK call free to fail.                    *)
(***************************************************************************)
EXTENDS Integers, Sequences, FiniteSets, TLC

VARIABLES
    metadata,     \* AliCloudOSS.metadata: Nil or the parsed ossMetadata
    client,       \* AliCloudOSS.client: Nil or the client handle
    store,        \* the bucket behind the SDK: object key -> Nil or object
    inflight,     \* per caller: Nil, or a get between its two network calls
    last,         \* the invocation (or Init) that returned most recently
    properties,   \* the property map handed to parseMetadata
    parsed        \* Nil, or what parseMetadata returned for properties

vars == <<metadata, client, store, inflight, last, properties, parsed>>

Nil == [nil |-> TRUE]

\* Number of callers that may be inside Invoke at the same time.
NumCallers == 2
Callers == 1..NumCallers

(***************************************************************************)
(* Constants of the source.                                                *)
(***************************************************************************)
metadataKey == "key"
maxKeys == 1000
MaxInt32 == 2147483647
MinInt32 == -MaxInt32 - 1

(***************************************************************************)
(* encoding/json as parseMetadata uses it.  A JSON object is the sequence  *)
(* of its members in document order.  json.Marshal writes a map's keys in  *)
(* byte order; json.Unmarshal takes the members in order and stores each   *)
(* in the struct field whose tag equals the member name, or else in the    *)
(* first field whose tag equals it up to letter case; a member matching no *)
(* field is skipped.  A later member for the same field overwrites.        *)
(***************************************************************************)

\* The property names considered, listed in byte order (upper case letters
\* sort before lower case ones, a prefix before its extensions).
PropertyNames ==
    << "AccessKey", "AccessKeyID", "Bucket", "Endpoint",
       "accessKey", "accessKeyID", "accesskeyid", "bucket", "endpoint",
       "region" >>

PropertyNameSet == { PropertyNames[i] : i \in 1..Len(PropertyNames) }

\* Letter-case folding of a name (strings.EqualFold compares folded names).
foldName(n) ==
    CASE n \in {"AccessKey", "accessKey"} -> "accesskey"
      [] n \in {"AccessKeyID", "accessKeyID", "accesskeyid"} -> "accesskeyid"
      [] n \in {"Bucket", "bucket"} -> "bucket"
      [] n \in {"Endpoint", "endpoint"} -> "endpoint"
      [] n \in {"Marker", "marker"} -> "marker"
      [] n \in {"Prefix", "prefix"} -> "prefix"
      [] n \in {"MaxKeys", "maxKeys", "maxkeys"} -> "maxkeys"
      [] n \in {"Delimiter", "delimiter"} -> "delimiter"
      [] OTHER -> n

\* ossMetadata: the fields in declaration order, and their json tags.
ossMetadataFields == << "Endpoint", "AccessKeyID", "AccessKey", "Bucket" >>
ossMetadataTags == << "endpoint", "accessKeyID", "accessKey", "bucket" >>

ossMetadataZero ==
    [Endpoint |-> "", AccessKeyID |-> "", AccessKey |-> "", Bucket |-> ""]

\* jsonField with a fault: only the exact tag is matched.
jsonFieldExact(tags, name) ==
    LET exact == { i \in 1..Len(tags) : tags[i] = name }
    IN  IF exact # {} THEN CHOOSE i \in exact : TRUE ELSE 0

\* The index of the struct field a member name is decoded into, 0 when there
\* is none: the field whose tag is the name, else the first field whose tag
\* equals the name up to letter case.
jsonField(tags, name) ==
    LET exact == { i \in 1..Len(tags) : tags[i] = name }
        fold  == { i \in 1..Len(tags) : foldName(tags[i]) = foldName(name) }
    IN  IF exact # {} THEN CHOOSE i \in exact : TRUE
        ELSE IF fold # {} THEN CHOOSE i \in fold : \A j \in fold : i <= j
        ELSE 0

\* json.Marshal of a map[string]string: the members, keys in byte order.
jsonMarshal(props) ==
    LET present == SelectSeq(PropertyNames, LAMBDA n : n \in DOMAIN props)
    IN  [i \in 1..Len(present) |-> <<present[i], props[present[i]]>>]

\* json.Unmarshal of an object of string members into an ossMetadata.
RECURSIVE jsonUnmarshalMetadata(_, _)
jsonUnmarshalMetadata(members, m) ==
    IF members = <<>> THEN m
    ELSE LET name  == Head(members)[1]
             value == Head(members)[2]
             i     == jsonField(ossMetadataTags, name)
         IN  jsonUnmarshalMetadata(Tail(members),
                 IF i = 0 THEN m
                 ELSE [m EXCEPT ![ossMetadataFields[i]] = value])

\* parseMetadata: marshal the properties, unmarshal them into ossMetadata.
\* Neither step can fail on a map of strings, so err is always Nil.
parseMetadata(props) ==
    [m   |-> jsonUnmarshalMetadata(jsonMarshal(props), ossMetadataZero),
     err |-> Nil]

\* Every property value is distinct, so a value landing in the wrong field
\* shows.
valueOf(n) == "value of " \o n

PropertyMaps == { [n \in D |-> valueOf(n)] : D \in SUBSET PropertyNameSet }

\* The property map of TestParseMetadata.
testProperties ==
    [n \in {"AccessKey", "Endpoint", "AccessKeyID", "Bucket"} |->
        CASE n = "AccessKey" -> "key"
          [] n = "Endpoint" -> "endpoint"
          [] n = "AccessKeyID" -> "accessKeyID"
          [] n = "Bucket" -> "test"]

\* The property map with the names as the struct tags spell them.
tagProperties ==
    [n \in {"endpoint", "accessKeyID", "accessKey", "bucket"} |-> valueOf(n)]

\* The property maps Init is called with.
InitProperties == {testProperties, tagProperties}

(***************************************************************************)
(* The list query: json.Unmarshal of request.data into listPayload.  The   *)
(* request payloads considered are listed with the JSON document each one  *)
(* is; a text that is no JSON value is a syntax error.                     *)
(***************************************************************************)
\* A member is a name with a string or with a number; the number written is
\* num + excess, excess being what it has beyond MaxInt32.
str(name, s) ==
    [name |-> name, kind |-> "string", str |-> s, num |-> 0, excess |-> 0]
num(name, n) ==
    [name |-> name, kind |-> "number", str |-> "", num |-> n, excess |-> 0]
big(name, e) ==
    [name |-> name, kind |-> "number", str |-> "", num |-> MaxInt32,
     excess |-> e]

ListTexts ==
    { "{}",
      "{\"maxkeys\":0}",
      "{\"maxkeys\":1000}",
      "{\"prefix\":\"logs/\",\"maxkeys\":2}",
      "{\"marker\":\"a.txt\",\"delimiter\":\"/\",\"maxKeys\":0}",
      "{\"marker\":\"a.txt\",\"delimiter\":\"/\",\"maxKeys\":1000}",
      "{\"maxkeys\":-1}",
      "{\"maxkeys\":2147483648}",
      "{\"maxkeys\":\"2\"}" }

\* The members of the JSON object a text is, or a syntax error.
jsonObject(text) ==
    CASE text = "{}" -> [ok |-> TRUE, members |-> <<>>]
      [] text = "{\"maxkeys\":0}" ->
            [ok |-> TRUE, members |-> <<num("maxkeys", 0)>>]
      [] text = "{\"maxkeys\":1000}" ->
            [ok |-> TRUE, members |-> <<num("maxkeys", 1000)>>]
      [] text = "{\"prefix\":\"logs/\",\"maxkeys\":2}" ->
            [ok |-> TRUE,
             members |-> <<str("prefix", "logs/"), num("maxkeys", 2)>>]
      [] text = "{\"marker\":\"a.txt\",\"delimiter\":\"/\",\"maxKeys\":0}" ->
            [ok |-> TRUE,
             members |-> <<str("marker", "a.txt"), str("delimiter", "/"),
                           num("maxKeys", 0)>>]
      [] text = "{\"marker\":\"a.txt\",\"delimiter\":\"/\",\"maxKeys\":1000}" ->
            [ok |-> TRUE,
             members |-> <<str("marker", "a.txt"), str("delimiter", "/"),
                           num("maxKeys", 1000)>>]
      [] text = "{\"maxkeys\":-1}" ->
            [ok |-> TRUE, members |-> <<num("maxkeys", -1)>>]
      [] text = "{\"maxkeys\":2147483648}" ->
            [ok |-> TRUE, members |-> <<big("maxkeys", 1)>>]
      [] text = "{\"maxkeys\":\"2\"}" ->
            [ok |-> TRUE, members |-> <<str("maxkeys", "2")>>]
      [] OTHER -> [ok |-> FALSE, members |-> <<>>]

\* listPayload: the fields in declaration order, their json tags and kinds.
listPayloadFields == << "Marker", "Prefix", "MaxKeys", "Delimiter" >>
listPayloadTags == << "marker", "prefix", "maxkeys", "delimiter" >>
listPayloadKinds == << "string", "string", "number", "string" >>

listPayloadZero ==
    [Marker |-> "", Prefix |-> "", MaxKeys |-> 0, Delimiter |-> ""]

ErrJSONSyntax == [kind |-> "json", what |-> "syntax"]
ErrJSONType == [kind |-> "json", what |-> "type"]

\* The decoder stores each member it can and remembers the first member it
\* cannot (a string for MaxKeys, a number outside int32); that error is
\* returned once the object is read.
RECURSIVE jsonUnmarshalPayload(_, _, _)
jsonUnmarshalPayload(members, payload, err) ==
    IF members = <<>> THEN [payload |-> payload, err |-> err]
    ELSE LET mem == Head(members)
             i   == jsonField(listPayloadTags, mem.name)
             fits == /\ i # 0
                     /\ mem.kind = listPayloadKinds[i]
                     /\ mem.kind = "number"
                            => (/\ mem.excess = 0
                                /\ MinInt32 <= mem.num
                                /\ mem.num <= MaxInt32)
         IN  IF i = 0
             THEN jsonUnmarshalPayload(Tail(members), payload, err)
             ELSE IF ~fits
             THEN jsonUnmarshalPayload(Tail(members), payload,
                      IF err = Nil THEN ErrJSONType ELSE err)
             ELSE jsonUnmarshalPayload(Tail(members),
                      [payload EXCEPT ![listPayloadFields[i]] =
                          IF mem.kind = "number" THEN mem.num ELSE mem.str],
                      err)

unmarshalListPayload(text) ==
    LET doc == jsonObject(text)
    IN  IF ~doc.ok THEN [payload |-> listPayloadZero, err |-> ErrJSONSyntax]
        ELSE jsonUnmarshalPayload(doc.members, listPayloadZero, Nil)

\* listMaxKeys with a fault: the default is not applied.
listMaxKeysNoDefault(payload) == payload

\* list: a MaxKeys of zero becomes maxKeys.
listMaxKeys(payload) ==
    IF payload.MaxKeys = 0 THEN [payload EXCEPT !.MaxKeys = maxKeys]
    ELSE payload

(***************************************************************************)
(* The SDK and the bucket behind it.                                       *)
(***************************************************************************)
ErrOther == [kind |-> "other"]
ServiceError(status, code) ==
    [kind |-> "service", status |-> status, code |-> code]
ErrNoSuchKey == ServiceError(404, "NoSuchKey")

ErrAccessDenied == ServiceError(403, "AccessDenied")

\* What GetObject may fail with whatever the bucket holds: an error that is
\* no oss.ServiceError (the network), or a service error of another status
\* or another code than 404 NoSuchKey.
GetObjectFailures ==
    {ErrOther, ErrAccessDenied, ServiceError(404, "NoSuchBucket")}

\* uuid.New().String(): some identifier, never the empty string.
UUIDs == {"uuid-1"}

\* The object keys of the bucket, in byte order.
ObjectKeyOrder == << "a.txt", "uuid-1" >>
ObjectKeys == { ObjectKeyOrder[i] : i \in 1..Len(ObjectKeyOrder) }

Call(fn, args, err) == [fn |-> fn, args |-> args, err |-> err]

\* bucket.GetObject: (nil, err) or (body, nil); a key the bucket does not
\* hold is the service error 404 NoSuchKey.
GetObjectOutcomes(key) ==
    { [body |-> Nil, err |-> e] : e \in GetObjectFailures }
    \cup (IF store[key] = Nil
          THEN { [body |-> Nil, err |-> ErrNoSuchKey] }
          ELSE { [body |-> [data |-> store[key].data], err |-> Nil] })

\* The headers of a stored object: one per custom metadata entry (oss.Meta
\* sets X-Oss-Meta-<k>), and one header of two values.
Headers(obj) ==
    LET custom == { "X-Oss-Meta-" \o k : k \in DOMAIN obj.meta }
    IN  [h \in custom \cup {"Vary"} |->
            IF h = "Vary" THEN << "Origin", "Accept-Encoding" >>
            ELSE << obj.meta[CHOOSE k \in DOMAIN obj.meta :
                                 "X-Oss-Meta-" \o k = h] >>]

\* bucket.GetObjectDetailedMeta: the headers, or an error.
DetailedMetaOutcomes(key) ==
    { [header |-> <<>>, err |-> ErrOther] }
    \cup (IF store[key] = Nil
          THEN { [header |-> <<>>, err |-> ErrNoSuchKey] }
          ELSE { [header |-> Headers(store[key]), err |-> Nil] })

hasPrefix(key, prefix) == prefix = ""

after(key, marker) ==
    \/ marker = ""
    \/ \E i, j \in 1..Len(ObjectKeyOrder) :
          ObjectKeyOrder[i] = marker /\ ObjectKeyOrder[j] = key /\ i < j

\* bucket.ListObjects: the keys held that pass the filters, in byte order,
\* at most MaxKeys of them.
ListObjectsResult(payload) ==
    LET all == SelectSeq(ObjectKeyOrder,
                   LAMBDA k : /\ store[k] # Nil
                              /\ hasPrefix(k, payload.Prefix)
                              /\ after(k, payload.Marker))
        n   == IF payload.MaxKeys < 0 THEN 0
               ELSE IF payload.MaxKeys < Len(all) THEN payload.MaxKeys
               ELSE Len(all)
    IN  [Objects |-> SubSeq(all, 1, n), IsTruncated |-> n < Len(all),
         NextMarker |-> IF n < Len(all) /\ n > 0 THEN all[n] ELSE ""]

RECURSIVE stringsJoin(_, _)
stringsJoin(v, sep) ==
    IF v = <<>> THEN ""
    ELSE IF Len(v) = 1 THEN v[1]
    ELSE v[1] \o sep \o stringsJoin(Tail(v), sep)

\* json.Marshal of a listing result.
jsonMarshalResult(result) ==
    "{\"Objects\":["
    \o stringsJoin([i \in 1..Len(result.Objects) |->
                       "{\"Key\":\"" \o result.Objects[i] \o "\"}"], ",")
    \o "],\"IsTruncated\":"
    \o (IF result.IsTruncated THEN "true" ELSE "false")
    \o ",\"NextMarker\":\"" \o result.NextMarker \o "\"}"

(***************************************************************************)
(* Requests, responses, errors.                                            *)
(***************************************************************************)
\* Request metadata: "key" absent, empty or "a.txt", "owner" absent or "bob".
RequestMetadata ==
    { [k \in D |-> IF k = metadataKey THEN key ELSE "bob"] :
          D \in SUBSET {metadataKey, "owner"}, key \in {"", "a.txt"} }

KeyMetadata ==
    { m \in RequestMetadata :
          "owner" \in DOMAIN m => metadataKey \notin DOMAIN m }

Requests ==
    [operation : {"create"}, data : {"hello"}, metadata : RequestMetadata]
    \cup [operation : {"get", "delete"}, data : {""}, metadata : KeyMetadata]
    \cup [operation : {"list"}, data : ListTexts \cup {"hello"},
          metadata : {<<>>}]
    \cup [operation : {"update"}, data : {""},
          metadata : {<<>>, [k \in {metadataKey} |-> "a.txt"]}]

\* &bindings.InvokeResponse{}: no data, no metadata.
InvokeResponseEmpty == [data |-> "", metadata |-> <<>>]

Errorf(msg, cause) == [msg |-> msg, cause |-> cause]

\* A nil s.metadata or s.client dereferenced, or a nil body closed.
ErrNilDereference ==
    Errorf("runtime error: invalid memory address or nil pointer dereference",
           Nil)

\* What an invocation returned (or that it panicked), the SDK calls it made
\* in order, and what became of the response body of get.
Result(req, handler, outcome, resp, err, calls) ==
    [kind |-> "Invoke", req |-> req, handler |-> handler,
     outcome |-> outcome, resp |-> resp, err |-> err, calls |-> calls,
     body |-> "none", closes |-> 0, nilClose |-> FALSE]

\* The deferred body.Close() has run once.
Closed(result) == [result EXCEPT !.body = "closed", !.closes = 1]

\* hasKey with a fault: an empty key counts.
hasKeyEntry(req) == metadataKey \in DOMAIN req.metadata

\* val, ok := req.Metadata[metadataKey]; ok && val != ""
hasKey(req) ==
    /\ metadataKey \in DOMAIN req.metadata
    /\ req.metadata[metadataKey] # ""

\* isNotFound with a fault: the code compared is not the one the service sends.
isNotFoundWrongCode(err) ==
    err.kind = "service" /\ err.status = 404 /\ err.code = "NotFound"

\* serviceErr.StatusCode == 404 && serviceErr.Code == "NoSuchKey"
isNotFound(err) ==
    err.kind = "service" /\ err.status = 404 /\ err.code = "NoSuchKey"

\* putOptions with a fault: the key entry is attached too.
putOptionsAll(req) == req.metadata

\* create: every metadata entry but "key" becomes an oss.Meta option.
putOptions(req) ==
    [k \in DOMAIN req.metadata \ {"key"} |-> req.metadata[k]]

\* unsupportedOperation with a fault: the operation is left out of the message.
unsupportedOperationUnnamed(operation) ==
    Errorf("aliyun oss binding error. unsupported operation", Nil)

\* fmt.Errorf("aliyun oss binding error. unsupported operation %s", op)
unsupportedOperation(operation) ==
    Errorf("aliyun oss binding error. unsupported operation " \o operation,
           Nil)

(***************************************************************************)
(* The adapter.                                                            *)
(***************************************************************************)

\* NewAliCloudOSS: neither metadata nor client is set.
NewAliCloudOSS ==
    /\ metadata = Nil
    /\ client = Nil
    /\ store = [k \in ObjectKeys |-> Nil]
    /\ inflight = [c \in Callers |-> Nil]
    /\ last = [kind |-> "none"]
    /\ properties = <<>>
    /\ parsed = Nil

InitResult(err) == [kind |-> "Init", err |-> err]

\* Init with a fault: the metadata is stored before the client is built.
InitStoresEarly(props) ==
    \E newErr \in {Nil, ErrOther} :
        LET r == parseMetadata(props)
        IN  /\ IF r.err # Nil
               THEN /\ last' = InitResult(r.err)
                    /\ UNCHANGED <<metadata, client>>
               ELSE IF newErr # Nil
               THEN /\ last' = InitResult(newErr)
                    /\ metadata' = r.m
                    /\ UNCHANGED client
               ELSE /\ last' = InitResult(Nil)
                    /\ metadata' = r.m
                    /\ client' = [Endpoint |-> r.m.Endpoint,
                                  AccessKeyID |-> r.m.AccessKeyID,
                                  AccessKey |-> r.m.AccessKey]
            /\ UNCHANGED <<store, inflight, properties, parsed>>

\* Init: parseMetadata, then getClient (oss.New, which may fail), then both
\* fields are assigned.
Init(props) ==
    \E newErr \in {Nil, ErrOther} :
        LET r == parseMetadata(props)
        IN  /\ IF r.err # Nil
               THEN /\ last' = InitResult(r.err)
                    /\ UNCHANGED <<metadata, client>>
               ELSE IF newErr # Nil
               THEN /\ last' = InitResult(newErr)
                    /\ UNCHANGED <<metadata, client>>
               ELSE /\ last' = InitResult(Nil)
                    /\ metadata' = r.m
                    /\ client' = [Endpoint |-> r.m.Endpoint,
                                  AccessKeyID |-> r.m.AccessKeyID,
                                  AccessKey |-> r.m.AccessKey]
            /\ UNCHANGED <<store, inflight, properties, parsed>>

\* s.client.Bucket(s.metadata.Bucket) dereferences both fields.
uninitialised == metadata = Nil \/ client = Nil

BucketCall(err) == Call("Bucket", [name |-> metadata.Bucket], err)

create(req) ==
    IF uninitialised
    THEN /\ last' = Result(req, "create", "panic", Nil, ErrNilDereference,
                           <<>>)
         /\ UNCHANGED store
    ELSE
      \E bucketErr \in {Nil, ErrOther} :
        IF bucketErr # Nil
        THEN /\ last' = Result(req, "create", "error", Nil,
                    Errorf("alicloud oss binding error: error getting bucket failed : %w",
                           bucketErr),
                    <<BucketCall(bucketErr)>>)
             /\ UNCHANGED store
        ELSE
          \E uuid \in UUIDs, putErr \in {Nil, ErrAccessDenied} :
            LET key == IF hasKey(req) THEN req.metadata[metadataKey]
                       ELSE uuid
                put == Call("PutObject",
                            [key |-> key, data |-> req.data,
                             meta |-> putOptions(req)], putErr)
            IN  IF putErr # Nil
                THEN /\ last' = Result(req, "create", "error", Nil,
                            Errorf("alicloud oss binding error: error putting object %w",
                                   putErr),
                            <<BucketCall(Nil), put>>)
                     /\ UNCHANGED store
                ELSE /\ last' = Result(req, "create", "ok",
                                       InvokeResponseEmpty, Nil,
                                       <<BucketCall(Nil), put>>)
                     /\ store' = [store EXCEPT ![key] =
                                     [data |-> req.data,
                                      meta |-> putOptions(req)]]

\* get from the GetObject call on, for the outcome fetched of that call: the
\* error checks, the deferred Close and the read of the body.  A get whose
\* body was read is in flight until getDetailedMeta.
getObject(c, req, fetched) ==
    LET key == req.metadata[metadataKey]
        fetch == Call("GetObject", [key |-> key], fetched.err)
    IN  IF fetched.err # Nil /\ fetched.err.kind # "service"
        THEN /\ last' = Result(req, "get", "error", Nil,
                    Errorf("alicloud oss binding error: error getting object : %w",
                           fetched.err),
                    <<BucketCall(Nil), fetch>>)
             /\ UNCHANGED inflight
        ELSE IF fetched.err # Nil /\ isNotFound(fetched.err)
        THEN /\ last' = Result(req, "get", "ok", InvokeResponseEmpty, Nil,
                               <<BucketCall(Nil), fetch>>)
             /\ UNCHANGED inflight
        ELSE IF fetched.body = Nil
        THEN \* defer body.Close() on the nil body
             /\ last' = [Result(req, "get", "panic", Nil, ErrNilDereference,
                                <<BucketCall(Nil), fetch>>)
                           EXCEPT !.nilClose = TRUE]
             /\ UNCHANGED inflight
        ELSE
          \E readErr \in {Nil, ErrOther} :
            LET read == Call("ReadAll", [key |-> key], readErr)
            IN  IF readErr # Nil
                THEN /\ last' = Closed([Result(req, "get", "error", Nil,
                            Errorf("alicloud oss binding error: error reading object : %w",
                                   readErr),
                            <<BucketCall(Nil), fetch, read>>)
                              EXCEPT !.body = "open"])
                     /\ UNCHANGED inflight
                ELSE /\ inflight' = [inflight EXCEPT ![c] =
                            [req |-> req, key |-> key,
                             data |-> fetched.body.data,
                             calls |-> <<BucketCall(Nil), fetch, read>>]]
                     /\ UNCHANGED last

\* get up to the GetObject call: the key check and the bucket handle.
get(c, req) ==
    IF ~hasKey(req)
    THEN /\ last' = Result(req, "get", "error", Nil,
                Errorf("alicloud oss binding error: can't read key value", Nil),
                <<>>)
         /\ UNCHANGED inflight
    ELSE IF uninitialised
    THEN /\ last' = Result(req, "get", "panic", Nil, ErrNilDereference, <<>>)
         /\ UNCHANGED inflight
    ELSE
      \E bucketErr \in {Nil, ErrOther} :
        IF bucketErr # Nil
        THEN /\ last' = Result(req, "get", "error", Nil,
                    Errorf("alicloud oss binding error: error getting bucket : %w",
                           bucketErr),
                    <<BucketCall(bucketErr)>>)
             /\ UNCHANGED inflight
        ELSE \E fetched \in GetObjectOutcomes(req.metadata[metadataKey]) :
                getObject(c, req, fetched)

\* The rest of a get in flight: GetObjectDetailedMeta, the flattening of the
\* headers, the return and the deferred Close.
getDetailedMeta(c) ==
    /\ inflight[c] # Nil
    /\ \E meta \in DetailedMetaOutcomes(inflight[c].key) :
        LET g == inflight[c]
            calls == Append(g.calls,
                         Call("GetObjectDetailedMeta", [key |-> g.key],
                              meta.err))
        IN  IF meta.err # Nil
            THEN last' = Closed([Result(g.req, "get", "error", Nil,
                        Errorf("alicloud oss binding error: error reading metadata : %w",
                               meta.err),
                        calls) EXCEPT !.body = "open"])
            ELSE last' = Closed([Result(g.req, "get", "ok",
                        [data |-> g.data,
                         metadata |-> [h \in DOMAIN meta.header |->
                                          stringsJoin(meta.header[h], " ")]],
                        Nil, calls) EXCEPT !.body = "open"])
    /\ inflight' = [inflight EXCEPT ![c] = Nil]
    /\ UNCHANGED <<metadata, client, store, properties, parsed>>

delete(req) ==
    IF ~hasKey(req)
    THEN /\ last' = Result(req, "delete", "error", Nil,
                Errorf("alicloud oss binding error: can't read key value", Nil),
                <<>>)
         /\ UNCHANGED store
    ELSE IF uninitialised
    THEN /\ last' = Result(req, "delete", "panic", Nil, ErrNilDereference,
                           <<>>)
         /\ UNCHANGED store
    ELSE
      \E bucketErr \in {Nil, ErrOther} :
        IF bucketErr # Nil
        THEN /\ last' = Result(req, "delete", "error", Nil,
                    Errorf("alicloud oss binding error: error getting bucket : %w",
                           bucketErr),
                    <<BucketCall(bucketErr)>>)
             /\ UNCHANGED store
        ELSE
          \E delErr \in {Nil, ErrAccessDenied} :
            LET key == req.metadata[metadataKey]
                del == Call("DeleteObject", [key |-> key], delErr)
            IN  IF delErr # Nil
                THEN /\ last' = Result(req, "delete", "error", Nil,
                            Errorf("alicloud oss binding error: error deleting : %w",
                                   delErr),
                            <<BucketCall(Nil), del>>)
                     /\ UNCHANGED store
                ELSE /\ last' = Result(req, "delete", "ok",
                                       InvokeResponseEmpty, Nil,
                                       <<BucketCall(Nil), del>>)
                     /\ store' = [store EXCEPT ![key] = Nil]

list(req) ==
    IF uninitialised
    THEN last' = Result(req, "list", "panic", Nil, ErrNilDereference, <<>>)
    ELSE
      \E bucketErr \in {Nil, ErrOther} :
        LET decoded == unmarshalListPayload(req.data)
            payload == listMaxKeys(decoded.payload)
        IN  IF bucketErr # Nil
            THEN last' = Result(req, "list", "error", Nil,
                        Errorf("alicloud oss binding error: error getting bucket : %w",
                               bucketErr),
                        <<BucketCall(bucketErr)>>)
            ELSE IF decoded.err # Nil
            THEN last' = Result(req, "list", "error", Nil,
                        Errorf("aliyun oss binding error. list operation. cannot unmarshal json to blobs: %w",
                               decoded.err),
                        <<BucketCall(Nil)>>)
            ELSE
              \E listErr \in {Nil, ErrAccessDenied} :
                LET listing == Call("ListObjects",
                                    [prefix |-> payload.Prefix,
                                     marker |-> payload.Marker,
                                     maxKeys |-> payload.MaxKeys,
                                     delimiter |-> payload.Delimiter],
                                    listErr)
                IN  IF listErr # Nil
                    THEN last' = Result(req, "list", "error", Nil,
                                Errorf("aliyun oss binding error. error listing objects: %w",
                                       listErr),
                                <<BucketCall(Nil), listing>>)
                    ELSE last' = Result(req, "list", "ok",
                                [data |-> jsonMarshalResult(
                                              ListObjectsResult(payload)),
                                 metadata |-> <<>>],
                                Nil, <<BucketCall(Nil), listing>>)

\* Invoke, by a caller that is not inside a get: the switch on req.Operation.
Invoke(c, req) ==
    /\ inflight[c] = Nil
    /\ \/ /\ req.operation = "create"
          /\ create(req)
          /\ UNCHANGED inflight
       \/ /\ req.operation = "get"
          /\ get(c, req)
          /\ UNCHANGED store
       \/ /\ req.operation = "delete"
          /\ delete(req)
          /\ UNCHANGED inflight
       \/ /\ req.operation = "list"
          /\ list(req)
          /\ UNCHANGED <<store, inflight>>
       \/ /\ req.operation \notin {"create", "get", "delete", "list"}
          /\ last' = Result(req, "", "error", Nil,
                            unsupportedOperation(req.operation), <<>>)
          /\ UNCHANGED <<store, inflight>>
    /\ UNCHANGED <<metadata, client, properties, parsed>>

\* Callers are interchangeable: a new invocation is made by the first caller
\* that is not inside a get.
firstIdle(c) == inflight[c] = Nil /\ \A d \in 1..(c - 1) : inflight[d] # Nil

Next ==
    \/ \E props \in InitProperties : Init(props)
    \/ \E c \in Callers, req \in Requests : firstIdle(c) /\ Invoke(c, req)
    \/ \E c \in Callers : getDetailedMeta(c)

Spec == NewAliCloudOSS /\ [][Next]_vars

(***************************************************************************)
(* parseMetadata on its own: every property map over PropertyNames.        *)
(***************************************************************************)
ParseInit ==
    /\ metadata = Nil
    /\ client = Nil
    /\ store = [k \in ObjectKeys |-> Nil]
    /\ inflight = [c \in Callers |-> Nil]
    /\ last = [kind |-> "none"]
    /\ properties \in PropertyMaps
    /\ parsed = Nil

ParseMetadata ==
    /\ parsed = Nil
    /\ parsed' = parseMetadata(properties)
    /\ UNCHANGED <<metadata, client, store, inflight, last, properties>>

SpecParse == ParseInit /\ [][ParseMetadata]_vars

(***************************************************************************)
(* Properties.                                                             *)
(***************************************************************************)
invoked == last.kind = "Invoke"

keyless(m) == metadataKey \notin DOMAIN m \/ m[metadataKey] = ""

\* The calls of the invocation that returned last which are calls of fn.
callsOf(fn) == { i \in DOMAIN last.calls : last.calls[i].fn = fn }

\* C1: a get or delete whose metadata has no "key" entry, or an empty one,
\* returns a non-nil error and no response and has made no SDK call, whether
\* or not the adapter was ever initialised.
C1_MissingKeyFailsBeforeAnyCall ==
    (/\ invoked
     /\ last.req.operation \in {"get", "delete"}
     /\ keyless(last.req.metadata))
        => /\ last.outcome = "error"
           /\ last.err # Nil
           /\ last.resp = Nil
           /\ last.calls = <<>>

C1_Witness ==
    /\ invoked
    /\ last.req.operation \in {"get", "delete"}
    /\ metadataKey \in DOMAIN last.req.metadata
    /\ last.req.metadata[metadataKey] = ""
    /\ client = Nil
    /\ last.outcome = "error"

\* C2: whenever GetObject fails in get with anything but 404 NoSuchKey, get
\* returns no response and the error wrapping that failure.
C2_FetchFailureIsReadError ==
    (/\ invoked
     /\ last.handler = "get"
     /\ \E i \in callsOf("GetObject") :
           last.calls[i].err # Nil /\ last.calls[i].err # ErrNoSuchKey)
        => /\ last.outcome = "error"
           /\ last.resp = Nil
           /\ last.err # Nil
           /\ last.err.msg
                = "alicloud oss binding error: error getting object : %w"
           /\ \E i \in callsOf("GetObject") : last.err.cause = last.calls[i].err

\* C3: when GetObject fails in get with 404 NoSuchKey, get returns the empty
\* response and a nil error, and GetObject is the last SDK call it makes.
C3_NotFoundIsEmptyResponse ==
    (/\ invoked
     /\ last.handler = "get"
     /\ \E i \in callsOf("GetObject") : last.calls[i].err = ErrNoSuchKey)
        => /\ last.outcome = "ok"
           /\ last.err = Nil
           /\ last.resp = [data |-> "", metadata |-> <<>>]
           /\ Len(last.calls) = 2
           /\ last.calls[1].fn = "Bucket"
           /\ last.calls[2].fn = "GetObject"
           /\ callsOf("GetObjectDetailedMeta") = {}

C3_Witness ==
    /\ invoked
    /\ last.handler = "get"
    /\ \E i \in callsOf("GetObject") : last.calls[i].err = ErrNoSuchKey
    /\ store[last.req.metadata[metadataKey]] = Nil
    /\ last.outcome = "ok"

\* C4: a get that was handed a body by GetObject has closed it exactly once
\* when it returns; a get that was handed none has closed nothing and has
\* not tried to close a nil body.
C4_BodyClosedExactlyOnce ==
    (invoked /\ last.handler = "get")
        => IF \E i \in callsOf("GetObject") : last.calls[i].err = Nil
           THEN last.body = "closed" /\ last.closes = 1 /\ ~last.nilClose
           ELSE last.body = "none" /\ last.closes = 0 /\ ~last.nilClose

\* C5: an Invoke of an operation other than create, get, delete, list returns
\* no response and an error naming the operation, enters no handler and makes
\* no SDK call; an Invoke of one of the four enters the handler of that name.
C5_DispatchByOperation ==
    invoked
        => IF last.req.operation \in {"create", "get", "delete", "list"}
           THEN last.handler = last.req.operation
           ELSE /\ last.handler = ""
                /\ last.resp = Nil
                /\ last.err # Nil
                /\ last.err.msg
                     = "aliyun oss binding error. unsupported operation "
                       \o last.req.operation
                /\ last.calls = <<>>

C5_Witness ==
    /\ invoked
    /\ last.req.operation = "update"
    /\ last.outcome = "error"
    /\ client # Nil

\* C6: a create that succeeded made exactly one PutObject call: under the
\* request's "key" when that is present and not empty and else under a
\* generated identifier that is not empty, with request.data as the body and
\* with exactly the metadata entries other than "key"; the object is stored
\* so, and the response is empty.
C6_CreatePutsOnce ==
    (invoked /\ last.handler = "create" /\ last.outcome = "ok")
        => /\ Cardinality(callsOf("PutObject")) = 1
           /\ \A i \in callsOf("PutObject") :
                LET put == last.calls[i].args
                    m   == last.req.metadata
                IN  /\ IF ~keyless(m) THEN put.key = m[metadataKey]
                       ELSE put.key \in UUIDs /\ put.key # ""
                    /\ put.data = last.req.data
                    /\ DOMAIN put.meta = DOMAIN m \ {metadataKey}
                    /\ \A k \in DOMAIN put.meta : put.meta[k] = m[k]
                    /\ store[put.key] = [data |-> put.data, meta |-> put.meta]
           /\ last.resp = [data |-> "", metadata |-> <<>>]
           /\ last.err = Nil

C6_Witness ==
    /\ invoked
    /\ last.handler = "create"
    /\ last.outcome = "ok"
    /\ DOMAIN last.req.metadata = {metadataKey, "owner"}
    /\ last.req.metadata[metadataKey] = ""
    /\ store["uuid-1"] # Nil

\* The names of a property map that fold to the tag of field i, as indices
\* into PropertyNames (so in byte order).
spellings(props, i) ==
    { j \in 1..Len(PropertyNames) :
         /\ PropertyNames[j] \in DOMAIN props
         /\ foldName(PropertyNames[j]) = foldName(ossMetadataTags[i]) }

\* C7, as stated: of a map holding the four names as the tags spell them,
\* parseMetadata returns no error and a record each of whose fields is the
\* value given under its tag; and the same of a map holding the four names as
\* the test spells them (and none as the tags spell them), with the values
\* given under the test's names.
C7_FieldsEqualSuppliedValues ==
    LET tags == {"endpoint", "accessKeyID", "accessKey", "bucket"}
        test == {"Endpoint", "AccessKeyID", "AccessKey", "Bucket"}
    IN  /\ (parsed # Nil /\ tags \subseteq DOMAIN properties)
              => /\ parsed.err = Nil
                 /\ parsed.m = [Endpoint |-> properties["endpoint"],
                                AccessKeyID |-> properties["accessKeyID"],
                                AccessKey |-> properties["accessKey"],
                                Bucket |-> properties["bucket"]]
        /\ (/\ parsed # Nil
            /\ test \subseteq DOMAIN properties
            /\ tags \cap DOMAIN properties = {})
              => /\ parsed.err = Nil
                 /\ parsed.m = [Endpoint |-> properties["Endpoint"],
                                AccessKeyID |-> properties["AccessKeyID"],
                                AccessKey |-> properties["AccessKey"],
                                Bucket |-> properties["Bucket"]]

\* C7, amended: parseMetadata returns no error, and each field is the value
\* of the one name of the map that equals the field's tag up to letter case;
\* of several such names the last in byte order gives the value, and with no
\* such name the field is empty.
C7_FieldIsLastSpelling ==
    parsed # Nil
        => /\ parsed.err = Nil
           /\ \A i \in 1..Len(ossMetadataFields) :
                LET given == spellings(properties, i)
                IN  parsed.m[ossMetadataFields[i]] =
                        IF given = {} THEN ""
                        ELSE properties[PropertyNames[
                                 CHOOSE j \in given : \A k \in given : k <= j]]

C7_Witness ==
    /\ parsed # Nil
    /\ DOMAIN properties = {"Endpoint", "AccessKeyID", "AccessKey", "Bucket"}
    /\ parsed.m = [Endpoint |-> properties["Endpoint"],
                   AccessKeyID |-> properties["AccessKeyID"],
                   AccessKey |-> properties["AccessKey"],
                   Bucket |-> properties["Bucket"]]

C9_OnlyInitWritesBoth ==
    /\ []((metadata = Nil) <=> (client = Nil))
    /\ [][(metadata' # metadata \/ client' # client)
             => /\ last'.kind = "Init"
                /\ last'.err = Nil
                /\ metadata' # Nil
                /\ client' # Nil]_vars

C9_Witness ==
    /\ last.kind = "Init"
    /\ last.err # Nil
    /\ metadata # Nil
    /\ client # Nil
    /\ \E c \in Callers : inflight[c] # Nil

\* C10: a get never returns an error because the object is missing: when an
\* SDK call of a get failed with 404 NoSuchKey, the get returned no error.
C10_MissingObjectIsNeverAnError ==
    (/\ invoked
     /\ last.handler = "get"
     /\ \E i \in DOMAIN last.calls : last.calls[i].err = ErrNoSuchKey)
        => last.outcome = "ok" /\ last.err = Nil

====
